---------------------------- MODULE Spec2Model ----------------------------
(***************************************************************************)
(* State-machine model of HandoverManager                                  *)
(* (apps/system/js/nfc_handover.js): the NDEF and NDEF-handover codecs as  *)
(* operators over byte sequences, and the handover orchestration (action   *)
(* queue, pending outgoing transfer, remote MAC, asynchronous requests).   *)
(*                                                                         *)
(* Conventions.  A Uint8Array is a sequence of 0..255.  A JavaScript       *)
(* string is a sequence of one-character strings.  A nullable field is     *)
(* <<>> for null and <<v>> for a value, except a MAC string, where null is *)
(* <<>> and a MAC is its non-empty character sequence.  A function that    *)
(* may throw returns [ok |-> FALSE, err |-> ...] for the exception.        *)
(***************************************************************************)
EXTENDS Integers, Sequences, FiniteSets, Bags, TLC

(***************************************************************************)
(* NdefConsts                                                              *)
(***************************************************************************)
MB == 128
ME == 64
CF == 32
SR == 16
IL == 8
TNF == 7
tnf_well_known == 1
tnf_mime_media == 2

rtd_alternative_carrier == <<97, 99>>
rtd_collision_resolution == <<99, 114>>
rtd_handover_request == <<72, 114>>
rtd_handover_select == <<72, 115>>

\* 'application/vnd.bluetooth.ep.oob'
BluetoothMimeType ==
  <<97, 112, 112, 108, 105, 99, 97, 116, 105, 111, 110, 47, 118, 110, 100,
    46, 98, 108, 117, 101, 116, 111, 111, 116, 104, 46, 101, 112, 46, 111,
    111, 98>>

(***************************************************************************)
(* JavaScript primitives used by the codecs                                *)
(***************************************************************************)
\* octet & mask, for a one-bit mask
BitAnd1(octet, mask) == IF (octet \div mask) % 2 = 1 THEN mask ELSE 0

Min(a, b) == IF a < b THEN a ELSE b
Max(a, b) == IF a > b THEN a ELSE b

\* TypedArray.prototype.subarray(begin, end) on a: negative indices count
\* from the end, both are clamped to 0..length
subarray(a, begin, end) ==
  LET n == Len(a)
      b == IF begin < 0 THEN Max(n + begin, 0) ELSE Min(begin, n)
      e == IF end < 0 THEN Max(n + end, 0) ELSE Min(end, n)
  IN  IF e > b THEN SubSeq(a, b + 1, e) ELSE <<>>

HexDigits == <<"0", "1", "2", "3", "4", "5", "6", "7", "8", "9",
               "A", "B", "C", "D", "E", "F">>

\* o.toString(16).toUpperCase() for an octet o
toString16Upper(o) ==
  IF o < 16 THEN <<HexDigits[o + 1]>>
  ELSE <<HexDigits[(o \div 16) + 1], HexDigits[(o % 16) + 1]>>

Thrown(e) == [ok |-> FALSE, err |-> e]

\* var x = e; F(x): e is evaluated once and F sees its value
Var(e, F(_)) == CHOOSE res \in {F(x) : x \in {e}} : TRUE

(***************************************************************************)
(* NdefUtils                                                               *)
(***************************************************************************)
equalArrays(a1, a2) == a1 = a2

(***************************************************************************)
(* Buffer: a Uint8Array and a read offset                                  *)
(***************************************************************************)
\* an element read outside the array is undefined
Undefined == -1

getOctet(u8, offset) ==
  IF offset = Len(u8) THEN Thrown("Buffer too small")
  ELSE [ok |-> TRUE,
        v |-> IF offset >= 0 /\ offset < Len(u8) THEN u8[offset + 1]
              ELSE Undefined,
        offset |-> offset + 1]

\* offset + len > length, written so that no sum leaves 32 bits
getOctetArray(u8, offset, len) ==
  IF len > Len(u8) - offset THEN Thrown("Buffer too small")
  ELSE [ok |-> TRUE, v |-> subarray(u8, offset, offset + len),
        offset |-> offset + len]

skip(u8, offset, len) ==
  IF len > Len(u8) - offset THEN Thrown("Buffer too small")
  ELSE [ok |-> TRUE, offset |-> offset + len]

(***************************************************************************)
(* MozNdefRecord                                                           *)
(***************************************************************************)
MozNdefRecord(tnf, type, id, payload) ==
  [tnf |-> tnf, type |-> type, id |-> id, payload |-> payload]

(***************************************************************************)
(* NdefCodec                                                               *)
(***************************************************************************)
\* the loop of doParse never exits: no exception is thrown and no record
\* with ME is ever read
Hang == "hang"

\* (x << 8) | o on 32-bit signed integers, for an octet o: the low 24 bits
\* of x move up and bit 23 of x becomes the sign; an undefined operand
\* counts as 0
ShiftOr(x, o) ==
  LET xv == IF x = Undefined THEN 0 ELSE x
      ov == IF o = Undefined THEN 0 ELSE o
      lo24 == xv % 16777216
      top == lo24 \div 65536
      rest == lo24 % 65536
  IN  (IF top >= 128 THEN top - 256 ELSE top) * 16777216 + rest * 256 + ov

\* the three further length octets of a record without SR
RECURSIVE LongPayloadLen(_, _, _, _)
LongPayloadLen(u8, offset, acc, i) ==
  IF i = 3 THEN [ok |-> TRUE, v |-> acc, offset |-> offset]
  ELSE Var(getOctet(u8, offset), LAMBDA o :
       IF ~o.ok THEN o
       ELSE LongPayloadLen(u8, o.offset, ShiftOr(acc, o.v), i + 1))

parseNdefRecord(u8, offset, firstOctet) ==
  Var(IF firstOctet = Undefined THEN 0 ELSE firstOctet, LAMBDA fo :
  Var(getOctet(u8, offset), LAMBDA typeLen :
  IF ~typeLen.ok THEN typeLen ELSE
  Var(getOctet(u8, typeLen.offset), LAMBDA sr :
  IF ~sr.ok THEN sr ELSE
  Var(IF BitAnd1(fo, SR) = 0
      THEN LongPayloadLen(u8, sr.offset, sr.v, 0) ELSE sr, LAMBDA payloadLen :
  IF ~payloadLen.ok THEN payloadLen ELSE
  Var(IF BitAnd1(fo, IL) # 0 THEN getOctet(u8, payloadLen.offset)
      ELSE [ok |-> TRUE, v |-> 0, offset |-> payloadLen.offset],
      LAMBDA idLen :
  IF ~idLen.ok THEN idLen ELSE
  \* getOctetArray(undefined) turns the offset into NaN: every later read
  \* yields undefined and never throws
  IF typeLen.v = Undefined THEN Thrown(Hang) ELSE
  Var(getOctetArray(u8, idLen.offset, typeLen.v), LAMBDA type :
  IF ~type.ok THEN type ELSE
  Var(getOctetArray(u8, type.offset, idLen.v), LAMBDA id :
  IF ~id.ok THEN id ELSE
  Var(getOctetArray(u8, id.offset, payloadLen.v), LAMBDA payload :
  IF ~payload.ok THEN payload ELSE
  [ok |-> TRUE, v |-> MozNdefRecord(fo % (TNF + 1), type.v, id.v, payload.v),
   offset |-> payload.offset]))))))))

\* a loop that does not reject MB on a record after the first
RECURSIVE NdefDoParseLoop_LaterMBAccepted(_, _, _, _, _)
NdefDoParseLoop_LaterMBAccepted(u8, offset, isFirstRecord, records, seen) ==
  IF offset \in seen THEN Thrown(Hang) ELSE
  Var(getOctet(u8, offset), LAMBDA firstOctet :
  IF ~firstOctet.ok THEN firstOctet ELSE
  Var(IF firstOctet.v = Undefined THEN 0 ELSE firstOctet.v, LAMBDA f :
  IF isFirstRecord /\ BitAnd1(f, MB) = 0
  THEN Thrown("MB bit not set in first NDEF record") ELSE
  IF BitAnd1(f, CF) # 0 THEN Thrown("Cannot deal with chunked records") ELSE
  Var(parseNdefRecord(u8, firstOctet.offset, firstOctet.v), LAMBDA r :
  IF ~r.ok THEN r ELSE
  IF BitAnd1(f, ME) # 0
  THEN [ok |-> TRUE, v |-> Append(records, r.v), offset |-> r.offset]
  ELSE NdefDoParseLoop_LaterMBAccepted(
         u8, r.offset, FALSE, Append(records, r.v),
         IF isFirstRecord THEN seen ELSE seen \cup {offset}))))

\* the do-while loop of doParse; seen holds the offsets at which an
\* iteration after the first has started (the buffer is immutable, so a
\* repeated offset repeats for ever)
RECURSIVE NdefDoParseLoop(_, _, _, _, _)
NdefDoParseLoop(u8, offset, isFirstRecord, records, seen) ==
  IF offset \in seen THEN Thrown(Hang) ELSE
  Var(getOctet(u8, offset), LAMBDA firstOctet :
  IF ~firstOctet.ok THEN firstOctet ELSE
  Var(IF firstOctet.v = Undefined THEN 0 ELSE firstOctet.v, LAMBDA f :
  IF isFirstRecord /\ BitAnd1(f, MB) = 0
  THEN Thrown("MB bit not set in first NDEF record") ELSE
  IF ~isFirstRecord /\ BitAnd1(f, MB) # 0
  THEN Thrown("MB can only be set for the first record") ELSE
  IF BitAnd1(f, CF) # 0 THEN Thrown("Cannot deal with chunked records") ELSE
  Var(parseNdefRecord(u8, firstOctet.offset, firstOctet.v), LAMBDA r :
  IF ~r.ok THEN r ELSE
  IF BitAnd1(f, ME) # 0
  THEN [ok |-> TRUE, v |-> Append(records, r.v), offset |-> r.offset]
  ELSE NdefDoParseLoop(u8, r.offset, FALSE, Append(records, r.v),
                       IF isFirstRecord THEN seen ELSE seen \cup {offset}))))

NdefCodec_doParse(u8, offset) == NdefDoParseLoop(u8, offset, TRUE, <<>>, {})

\* a caught exception gives null, which is [ok |-> FALSE, err |-> "null"];
\* a loop that never exits is [ok |-> FALSE, err |-> Hang]
CatchNull(r) == IF r.ok \/ r.err = Hang THEN r ELSE Thrown("null")

NdefCodec_parse(u8, offset) == CatchNull(NdefCodec_doParse(u8, offset))

(***************************************************************************)
(* NdefHandoverCodec                                                       *)
(***************************************************************************)
RECURSIVE findNdefRecordWithIdFrom(_, _, _)
findNdefRecordWithIdFrom(id, ndef, i) ==
  IF i > Len(ndef) THEN Thrown("Could not find record with id")
  ELSE IF equalArrays(id, ndef[i].id) THEN [ok |-> TRUE, v |-> ndef[i]]
  ELSE findNdefRecordWithIdFrom(id, ndef, i + 1)

findNdefRecordWithId(id, ndef) == findNdefRecordWithIdFrom(id, ndef, 1)

parseAC(ac, ndef) ==
  Var(getOctet(ac, 0), LAMBDA cps :
  IF ~cps.ok THEN cps ELSE
  Var(getOctet(ac, cps.offset), LAMBDA cdrLen :
  IF ~cdrLen.ok THEN cdrLen ELSE
  Var(getOctetArray(ac, cdrLen.offset, cdrLen.v), LAMBDA cdr :
  IF ~cdr.ok THEN cdr ELSE
  Var(findNdefRecordWithId(cdr.v, ndef), LAMBDA rec :
  IF ~rec.ok THEN rec ELSE
  [ok |-> TRUE, v |-> [cps |-> cps.v % 4, cdr |-> rec.v]]))))

\* the loop of parseAcRecords from index i (1-based) on; acs is h.ac
RECURSIVE parseAcRecordsFrom(_, _, _, _)
parseAcRecordsFrom(acs, ndef, acNdef, i) ==
  IF i > Len(acNdef) THEN [ok |-> TRUE, v |-> acs]
  ELSE IF equalArrays(acNdef[i].type, rtd_alternative_carrier)
       THEN Var(parseAC(acNdef[i].payload, ndef), LAMBDA a :
            IF ~a.ok THEN a
            ELSE parseAcRecordsFrom(Append(acs, a.v), ndef, acNdef, i + 1))
       ELSE Thrown("Can only parse AC record within Hs")

parseAcRecords(ndef, acNdef, offset) ==
  parseAcRecordsFrom(<<>>, ndef, acNdef, offset + 1)

\* the handover object h, once its alternative carriers acs are parsed
Handover(type, version, cr, acs) ==
  IF ~acs.ok THEN acs
  ELSE [ok |-> TRUE,
        v |-> [type |-> type, majorVersion |-> version \div 16,
               minorVersion |-> version % 16, cr |-> cr, ac |-> acs.v]]

\* h.cr of a Select does not exist
NoCr == <<>>

NdefHandoverCodec_doParse(ndefMsg) ==
  IF Len(ndefMsg) = 0 THEN Thrown("TypeError") ELSE
  Var(ndefMsg[1], LAMBDA record :
  Var(getOctet(record.payload, 0), LAMBDA version :
  IF ~version.ok THEN version ELSE
  Var(NdefCodec_parse(record.payload, version.offset), LAMBDA embeddedNdef :
  IF ~embeddedNdef.ok /\ embeddedNdef.err = Hang THEN embeddedNdef ELSE
  IF ~embeddedNdef.ok
  THEN Thrown("Could not parse embedded NDEF in Hr/Hs record") ELSE
  IF record.tnf # tnf_well_known
  THEN Thrown("Expected Well Known TNF in Hr/Hs record") ELSE
  IF equalArrays(record.type, rtd_handover_select)
  THEN Handover("Hs", version.v, NoCr,
                parseAcRecords(ndefMsg, embeddedNdef.v, 0))
  ELSE IF equalArrays(record.type, rtd_handover_request)
  THEN Var(embeddedNdef.v[1], LAMBDA crr :
       IF ~equalArrays(crr.type, rtd_collision_resolution)
       THEN Thrown("Expected Collision Resolution Record") ELSE
       IF Len(crr.payload) # 2
       THEN Thrown("Expected random number in Collision Resolution Record")
       ELSE Handover("Hr", version.v,
                     <<crr.payload[1] * 256 + crr.payload[2]>>,
                     parseAcRecords(ndefMsg, embeddedNdef.v, 1)))
  ELSE Thrown("Can only handle Hr and Hs records for now"))))

NdefHandoverCodec_parse(ndefMsg) == CatchNull(NdefHandoverCodec_doParse(ndefMsg))

\* null is <<>>, a record is <<cdr>>
RECURSIVE searchForBluetoothACFrom(_, _)
searchForBluetoothACFrom(h, i) ==
  IF i > Len(h.ac) THEN <<>>
  ELSE IF h.ac[i].cdr.tnf = tnf_mime_media
          /\ h.ac[i].cdr.type = BluetoothMimeType
       THEN <<h.ac[i].cdr>>
       ELSE searchForBluetoothACFrom(h, i + 1)

\* a search that takes the first alternative carrier, whatever its type
searchForBluetoothAC_AnyCarrier(h) ==
  IF Len(h.ac) = 0 THEN <<>> ELSE <<h.ac[1].cdr>>

searchForBluetoothAC(h) == searchForBluetoothACFrom(h, 1)

\* mac after one more octet o: ':' in front of a non-empty mac, then the
\* two hex digits of o in front of that
PrependOctet(o, mac) ==
  (IF o < 16 THEN <<"0">> ELSE <<>>) \o toString16Upper(o)
    \o (IF Len(mac) > 0 THEN <<":">> ELSE <<>>) \o mac

\* the loop over the six address octets
RECURSIVE ReadMac(_, _, _, _)
ReadMac(u8, offset, mac, i) ==
  IF i = 6 THEN [ok |-> TRUE, v |-> mac, offset |-> offset]
  ELSE Var(getOctet(u8, offset), LAMBDA o :
       IF ~o.ok THEN o
       ELSE ReadMac(u8, o.offset, PrependOctet(o.v, mac), i + 1))

\* the loop over the OOB values; localName is <<>> while absent
RECURSIVE ReadOOB(_, _, _)
ReadOOB(u8, offset, localName) ==
  IF offset = Len(u8) THEN [ok |-> TRUE, v |-> localName]
  ELSE Var(getOctet(u8, offset), LAMBDA len :
       IF ~len.ok THEN len ELSE
       Var(getOctet(u8, len.offset), LAMBDA type :
       IF ~type.ok THEN type ELSE
       IF type.v \in {8, 9}
       THEN Var(getOctetArray(u8, type.offset, len.v - 1), LAMBDA n :
            IF ~n.ok THEN n ELSE ReadOOB(u8, n.offset, <<n.v>>))
       ELSE Var(skip(u8, type.offset, len.v - 1), LAMBDA s :
            IF ~s.ok THEN s ELSE ReadOOB(u8, s.offset, localName))))

parseBluetoothSSP(cdr) ==
  Var(getOctet(cdr.payload, 0), LAMBDA lo :
  IF ~lo.ok THEN lo ELSE
  Var(getOctet(cdr.payload, lo.offset), LAMBDA hi :
  IF ~hi.ok THEN hi ELSE
  Var(ReadMac(cdr.payload, hi.offset, <<>>, 0), LAMBDA mac :
  IF ~mac.ok THEN mac ELSE
  Var(ReadOOB(cdr.payload, mac.offset, <<>>), LAMBDA oob :
  IF ~oob.ok THEN oob ELSE
  [ok |-> TRUE, v |-> [mac |-> mac.v, localName |-> oob.v]]))))

(***************************************************************************)
(* String.prototype.split(':'), parseInt(s, 16) and the conversion of a    *)
(* number stored into a Uint8Array, as the encoders use them               *)
(***************************************************************************)
RECURSIVE SplitColonFrom(_, _, _, _)
SplitColonFrom(str, i, cur, parts) ==
  IF i > Len(str) THEN Append(parts, cur)
  ELSE IF str[i] = ":" THEN SplitColonFrom(str, i + 1, <<>>, Append(parts, cur))
  ELSE SplitColonFrom(str, i + 1, Append(cur, str[i]), parts)

split(str) == SplitColonFrom(str, 1, <<>>, <<>>)

LowerHexDigits == <<"0", "1", "2", "3", "4", "5", "6", "7", "8", "9",
                    "a", "b", "c", "d", "e", "f">>

IsHexDigit(c) ==
  \E d \in 1..16 : HexDigits[d] = c \/ LowerHexDigits[d] = c

HexValue(c) ==
  (CHOOSE d \in 1..16 : HexDigits[d] = c \/ LowerHexDigits[d] = c) - 1

NaN == "NaN"

\* the digits of str from position i on, up to the first non-digit
RECURSIVE ParseHexDigits(_, _, _, _)
ParseHexDigits(str, i, acc, any) ==
  IF i <= Len(str) /\ IsHexDigit(str[i])
  THEN ParseHexDigits(str, i + 1, acc * 16 + HexValue(str[i]), TRUE)
  ELSE [any |-> any, v |-> acc]

RECURSIVE SkipSpaces(_, _)
SkipSpaces(str, i) ==
  IF i <= Len(str) /\ str[i] = " " THEN SkipSpaces(str, i + 1) ELSE i

\* parseInt(str, 16): [nan |-> TRUE] or [nan |-> FALSE, v |-> integer]
parseInt16(str) ==
  LET i0 == SkipSpaces(str, 1)
      neg == i0 <= Len(str) /\ str[i0] = "-"
      i1 == IF i0 <= Len(str) /\ str[i0] \in {"-", "+"} THEN i0 + 1 ELSE i0
      i2 == IF i1 + 1 <= Len(str) /\ str[i1] = "0" /\ str[i1 + 1] \in {"x", "X"}
            THEN i1 + 2 ELSE i1
      d == ParseHexDigits(str, i2, 0, FALSE)
  IN  IF ~d.any THEN [nan |-> TRUE]
      ELSE [nan |-> FALSE, v |-> IF neg THEN 0 - d.v ELSE d.v]

\* storing a number in a Uint8Array element: NaN becomes 0, else modulo 256
ToUint8(n) == IF n.nan THEN 0 ELSE n.v % 256

\* an array m filled from macVals[0] to macVals[5]
MacOctets_NotReversed(macVals) ==
  [k \in 1..6 |-> ToUint8(parseInt16(macVals[k]))]

\* the array m of both encoders: macVals[5] .. macVals[0] through parseInt
MacOctets(macVals) == [k \in 1..6 |-> ToUint8(parseInt16(macVals[7 - k]))]

\* an encoder that writes the low octet of rnd first
encodeHandoverRequest_LowOctetFirst(mac, cps, rnd) ==
  LET macVals == split(mac) IN
  IF Len(macVals) # 6 THEN <<>>
  ELSE LET m == MacOctets(macVals)
           rndLSB == rnd % 256
           rndMSB == rnd \div 256
       IN  << <<MozNdefRecord(1, <<72, 114>>, <<>>,
                  <<18, 145, 2, 2, 99, 114, rndLSB, rndMSB % 256, 81, 2, 4,
                    97, 99, cps % 256, 1, 98, 0>>),
                MozNdefRecord(2, BluetoothMimeType, <<98>>,
                  <<8, 0, m[1], m[2], m[3], m[4], m[5], m[6]>>)>> >>

\* null is <<>>, a message is <<records>>
encodeHandoverRequest(mac, cps, rnd) ==
  LET macVals == split(mac) IN
  IF Len(macVals) # 6 THEN <<>>
  ELSE LET m == MacOctets(macVals)
           rndLSB == rnd % 256
           rndMSB == rnd \div 256
       IN  << <<MozNdefRecord(1, <<72, 114>>, <<>>,
                  <<18, 145, 2, 2, 99, 114, rndMSB % 256, rndLSB, 81, 2, 4,
                    97, 99, cps % 256, 1, 98, 0>>),
                MozNdefRecord(2, BluetoothMimeType, <<98>>,
                  <<8, 0, m[1], m[2], m[3], m[4], m[5], m[6]>>)>> >>

encodeHandoverSelect(mac, cps) ==
  LET macVals == split(mac) IN
  IF Len(macVals) # 6 THEN <<>>
  ELSE LET m == MacOctets(macVals)
       IN  << <<MozNdefRecord(tnf_well_known, rtd_handover_select, <<>>,
                  <<18, 209, 2, 4, 97, 99, cps % 256, 1, 48, 0>>),
                MozNdefRecord(tnf_mime_media, BluetoothMimeType, <<48>>,
                  <<8, 0, m[1], m[2], m[3], m[4], m[5], m[6]>>)>> >>

(***************************************************************************)
(* Inputs: the messages, sessions and transfers the environment delivers   *)
(***************************************************************************)
\* "0A:1B:2C:3D:4E:5F" and "F0:E1:D2:C3:B4:A5" in transmission order
OctetsA == <<95, 78, 61, 44, 27, 10>>
OctetsB == <<165, 180, 195, 210, 225, 240>>
MacA == <<"0", "A", ":", "1", "B", ":", "2", "C", ":", "3", "D", ":",
          "4", "E", ":", "5", "F">>
MacB == <<"F", "0", ":", "E", "1", ":", "D", "2", ":", "C", "3", ":",
          "B", "4", ":", "A", "5">>

\* the address of the local adapter (defaultAdapter.address)
LocalAddress == <<"0", "1", ":", "2", "3", ":", "4", "5", ":", "6", "7", ":",
                  "8", "9", ":", "A", "B">>

\* 'application/vnd.wfa.wsc'
WifiMimeType ==
  <<97, 112, 112, 108, 105, 99, 97, 116, 105, 111, 110, 47, 118, 110, 100,
    46, 119, 102, 97, 46, 119, 115, 99>>

\* an Hs record whose single 'ac' record refers to the carrier id ref
HsRecord(type, ref) ==
  MozNdefRecord(tnf_well_known, type, <<>>,
                <<18, 209, 2, 4, 97, 99, 1, 1, ref, 0>>)

\* an Hr record: 'cr' record with collision value 0x1234, then one 'ac'
HrRecord(type, ref) ==
  MozNdefRecord(tnf_well_known, type, <<>>,
                <<18, 145, 2, 2, 99, 114, 18, 52, 81, 2, 4, 97, 99, 1, 1,
                  ref, 0>>)

BtRecord(id, payload) ==
  MozNdefRecord(tnf_mime_media, BluetoothMimeType, <<id>>, payload)

SelectA == <<HsRecord(rtd_handover_select, 48), BtRecord(48, <<8, 0>> \o OctetsA)>>
\* with a complete local name 'ab' and an OOB value of another type
SelectB ==
  <<HsRecord(rtd_handover_select, 48),
    BtRecord(48, <<15, 0>> \o OctetsB \o <<3, 9, 97, 98, 2, 13, 0>>)>>
\* a well-formed Select whose only carrier is not Bluetooth
SelectNoBT ==
  <<HsRecord(rtd_handover_select, 48),
    MozNdefRecord(tnf_mime_media, WifiMimeType, <<48>>, <<16, 74, 0, 1, 16>>)>>
\* a well-formed Select whose only carrier has the Bluetooth type name but
\* is not a MIME media record
SelectWrongTnf ==
  <<HsRecord(rtd_handover_select, 48),
    MozNdefRecord(tnf_well_known, BluetoothMimeType, <<48>>,
                  <<8, 0>> \o OctetsA)>>
\* unrecognized handover tag 'Hx'
SelectBadTag == <<HsRecord(<<72, 120>>, 48), BtRecord(48, <<8, 0>> \o OctetsA)>>
\* nested record without MB
SelectBadNested ==
  <<MozNdefRecord(tnf_well_known, rtd_handover_select, <<>>,
                  <<18, 81, 2, 4, 97, 99, 1, 1, 48, 0>>),
    BtRecord(48, <<8, 0>> \o OctetsA)>>
\* the 'ac' record refers to an id no record carries
SelectDangling == <<HsRecord(rtd_handover_select, 49), BtRecord(48, <<8, 0>> \o OctetsA)>>
\* Bluetooth OOB payload cut inside the address
SelectTruncated == <<HsRecord(rtd_handover_select, 48), BtRecord(48, <<8, 0, 95, 78, 61>>)>>
\* an OOB value whose length runs past the end of the payload
SelectOverrun ==
  <<HsRecord(rtd_handover_select, 48),
    BtRecord(48, <<8, 0>> \o OctetsA \o <<5, 9, 97>>)>>

RequestA == <<HrRecord(rtd_handover_request, 98), BtRecord(98, <<8, 0>> \o OctetsA)>>
RequestBadTag == <<HrRecord(<<72, 120>>, 98), BtRecord(98, <<8, 0>> \o OctetsA)>>
RequestTruncated == <<HrRecord(rtd_handover_request, 98), BtRecord(98, <<8, 0, 95, 78, 61>>)>>

\* a received message is named in the state; Message gives its records
Message ==
  [SelectA |-> SelectA, SelectB |-> SelectB, SelectNoBT |-> SelectNoBT,
   SelectWrongTnf |-> SelectWrongTnf,
   SelectBadTag |-> SelectBadTag, SelectBadNested |-> SelectBadNested,
   SelectDangling |-> SelectDangling, SelectTruncated |-> SelectTruncated,
   SelectOverrun |-> SelectOverrun, RequestA |-> RequestA,
   RequestBadTag |-> RequestBadTag, RequestTruncated |-> RequestTruncated]

SelectMsgs == {"SelectA", "SelectB", "SelectNoBT", "SelectWrongTnf",
               "SelectBadTag",
               "SelectBadNested", "SelectDangling", "SelectTruncated",
               "SelectOverrun"}
RequestMsgs == {"RequestA", "RequestBadTag", "RequestTruncated"}

\* messages malformed at the handover level, and messages whose Bluetooth
\* OOB payload is malformed
MalformedHandover == {"SelectBadTag", "SelectBadNested", "SelectDangling",
                      "RequestBadTag"}
MalformedOOB == {"SelectTruncated", "SelectOverrun", "RequestTruncated"}
Malformed == MalformedHandover \cup MalformedOOB

Sessions == {"s1"}
\* the arguments of handleFileTransfer
Transfers == {[session |-> "s1", blob |-> "blob1", requestId |-> 1],
              [session |-> "s2", blob |-> "blob2", requestId |-> 2]}
\* values of Math.floor(Math.random() * 0xffff)
RndValues == {4660}

(***************************************************************************)
(* Bounds                                                                  *)
(***************************************************************************)
\* actions held in actionQueue plus asynchronous requests (sendNDEF, pair)
\* awaiting their result
MaxOutstanding == 3

(***************************************************************************)
(* HandoverManager state                                                   *)
(***************************************************************************)
VARIABLES
  enabled,           \* bluetooth.enabled
  getAdapterReq,     \* a getDefaultAdapter() request awaits its result
  defaultAdapter,    \* TRUE when self.defaultAdapter is not null
  actionQueue,       \* self.actionQueue
  sendFileRequest,   \* self.sendFileRequest: <<>> or <<[session, blob, requestId]>>
  remoteMAC,         \* self.remoteMAC: <<>> or a MAC string
  settingsNotified,  \* self.settingsNotified
  requests,          \* bag of sendNDEF and pair requests awaiting their result
  cycleSets,         \* settings requests issued since Bluetooth was last off
  cycleEnqueued,     \* TRUE when an action was queued since Bluetooth was last off
  codecCall,         \* a call of a codec function, with its arguments
  codecResult        \* what that call returned, Pending before it ran

vars == <<enabled, getAdapterReq, defaultAdapter, actionQueue,
          sendFileRequest, remoteMAC, settingsNotified, requests, cycleSets,
          cycleEnqueued, codecCall, codecResult>>

\* the fields of HandoverManager, and the codec call
managerVars == <<enabled, getAdapterReq, defaultAdapter, actionQueue,
                 sendFileRequest, remoteMAC, settingsNotified, requests,
                 cycleSets, cycleEnqueued>>
codecVars == <<codecCall, codecResult>>

NoCall == [op |-> "none"]
\* a call that has not returned, and one that returned v
Pending == [done |-> FALSE]
Result(v) == [done |-> TRUE, v |-> v]

\* the fields a handler reads and writes; effects lists, in order, what the
\* handler did to its collaborators (settings, adapter, NFC peer, window,
\* BluetoothTransfer) and the actions it ran; thrown tells that it ended
\* with an uncaught exception
Self ==
  [enabled |-> enabled, defaultAdapter |-> defaultAdapter,
   actionQueue |-> actionQueue, sendFileRequest |-> sendFileRequest,
   remoteMAC |-> remoteMAC, settingsNotified |-> settingsNotified,
   requests |-> requests, cycleSets |-> cycleSets,
   cycleEnqueued |-> cycleEnqueued, effects |-> <<>>, thrown |-> FALSE]

Emit(st, e) == [st EXCEPT !.effects = Append(@, e)]

\* an uncaught exception ends the handler
Throw(st, err) ==
  [st EXCEPT !.effects = Append(@, [e |-> "throw", err |-> err]),
             !.thrown = TRUE]

AddRequest(st, r) == [st EXCEPT !.requests = @ (+) SetToBag({r})]

(***************************************************************************)
(* Private helper functions                                                *)
(***************************************************************************)
\* [ok |-> TRUE, v |-> mac or <<>> for null], or the exception thrown
getBluetoothMAC(ndef) ==
  Var(NdefHandoverCodec_parse(ndef), LAMBDA handover :
  IF ~handover.ok /\ handover.err = Hang THEN handover ELSE
  IF ~handover.ok THEN [ok |-> TRUE, v |-> <<>>] ELSE
  Var(searchForBluetoothAC(handover.v), LAMBDA btsspRecord :
  IF btsspRecord = <<>> THEN [ok |-> TRUE, v |-> <<>>] ELSE
  Var(parseBluetoothSSP(btsspRecord[1]), LAMBDA btssp :
  IF ~btssp.ok THEN btssp ELSE [ok |-> TRUE, v |-> btssp.v.mac])))

\* getBluetoothMAC of each message the environment delivers
ReceivedMAC == [n \in DOMAIN Message |-> getBluetoothMAC(Message[n])]

\* the Select and Request messages built with the local address
SentSelect == [cps \in {1, 2} |-> encodeHandoverSelect(LocalAddress, cps)]
SentRequest ==
  [cps \in {1, 2} |->
     [rnd \in RndValues |-> encodeHandoverRequest(LocalAddress, cps, rnd)]]

\* cb names the onsuccess/onerror pair: "doFileTransfer" (the closures of
\* doFileTransfer), "static" (the logging closures of handleHandoverSelect)
\* or "none" (doPairing(mac) of doHandoverRequest)
doPairing(st, mac, cb) ==
  IF ~st.defaultAdapter THEN st
  ELSE AddRequest(Emit(st, [e |-> "pair", mac |-> mac]),
                  [kind |-> "pair", mac |-> mac, cb |-> cb])

doFileTransfer(st, mac) ==
  IF st.sendFileRequest = <<>> THEN st
  ELSE doPairing([st EXCEPT !.remoteMAC = mac], mac, "doFileTransfer")

\* cps of the local carrier: active (1) or activating (2)
carrierPowerState(st) == IF st.enabled THEN 1 ELSE 2

doHandoverRequest(st, ndef, session) ==
  Var(ReceivedMAC[ndef], LAMBDA mac :
  IF ~mac.ok THEN Throw(st, mac.err) ELSE
  IF mac.v = <<>> THEN st ELSE
  Var([st EXCEPT !.remoteMAC = mac.v], LAMBDA s1 :
  \* self.defaultAdapter.address
  IF ~s1.defaultAdapter THEN Throw(s1, "TypeError") ELSE
  AddRequest(Emit(s1, [e |-> "sendNDEF", session |-> session,
                       ndef |-> SentSelect[carrierPowerState(st)]]),
             [kind |-> "sendNDEF", msg |-> "hs", mac |-> mac.v])))

dispatchSendFileStatus(st, status) ==
  IF st.sendFileRequest = <<>> THEN Throw(st, "TypeError")
  ELSE Emit(st, [e |-> "nfc-send-file-status", status |-> status,
                 requestId |-> st.sendFileRequest[1].requestId,
                 sessionToken |-> st.sendFileRequest[1].session])

initiateFileTransfer(st, session, blob, requestId, rnd) ==
  Var([st EXCEPT !.sendFileRequest =
                 <<[session |-> session, blob |-> blob,
                    requestId |-> requestId]>>], LAMBDA s1 :
  \* self.defaultAdapter.address
  IF ~s1.defaultAdapter THEN Throw(s1, "TypeError") ELSE
  AddRequest(Emit(s1, [e |-> "sendNDEF", session |-> session,
                       ndef |-> SentRequest[carrierPowerState(st)][rnd]]),
             [kind |-> "sendNDEF", msg |-> "hr",
              tx |-> [session |-> session, blob |-> blob,
                      requestId |-> requestId]]))

\* action.callback.apply(null, action.args)
apply(st, action, rnd) ==
  Var(Emit(st, [e |-> "run", action |-> action]), LAMBDA s1 :
  CASE action.callback = "doFileTransfer" ->
         doFileTransfer(s1, action.args[1])
    [] action.callback = "doPairing" ->
         doPairing(s1, action.args[1], "static")
    [] action.callback = "doHandoverRequest" ->
         doHandoverRequest(s1, action.args[1], action.args[2])
    [] action.callback = "initiateFileTransfer" ->
         initiateFileTransfer(s1, action.args[1], action.args[2],
                              action.args[3], rnd))

\* a doAction without the settingsNotified guard
doAction_NoGuard(st, action, rnd) ==
  IF ~st.enabled
  THEN [Emit(st, [e |-> "settings.set"])
          EXCEPT !.actionQueue = Append(@, action), !.cycleEnqueued = TRUE,
                 !.settingsNotified = TRUE, !.cycleSets = @ + 1]
  ELSE apply(st, action, rnd)

\* a doAction that also queues the action it runs at once
doAction_QueueAndRun(st, action, rnd) ==
  IF ~st.enabled
  THEN Var([st EXCEPT !.actionQueue = Append(@, action),
                      !.cycleEnqueued = TRUE], LAMBDA s1 :
       IF s1.settingsNotified = FALSE
       THEN [Emit(s1, [e |-> "settings.set"])
               EXCEPT !.settingsNotified = TRUE, !.cycleSets = @ + 1]
       ELSE s1)
  ELSE apply([st EXCEPT !.actionQueue = Append(@, action)], action, rnd)

\* cycleEnqueued and cycleSets record, for the current period in which
\* Bluetooth is off, that an action was queued and how many requests went
\* to the settings
doAction(st, action, rnd) ==
  IF ~st.enabled
  THEN Var([st EXCEPT !.actionQueue = Append(@, action),
                      !.cycleEnqueued = TRUE], LAMBDA s1 :
       IF s1.settingsNotified = FALSE
       THEN [Emit(s1, [e |-> "settings.set"])
               EXCEPT !.settingsNotified = TRUE, !.cycleSets = @ + 1]
       ELSE s1)
  ELSE apply(st, action, rnd)

\* the for loop of bt_getAdapterSuccess from index i on
RECURSIVE RunQueueFrom(_, _, _)
RunQueueFrom(st, i, rnd) ==
  IF i > Len(st.actionQueue) THEN st
  ELSE Var(apply(st, st.actionQueue[i], rnd), LAMBDA s1 :
       IF s1.thrown THEN s1 ELSE RunQueueFrom(s1, i + 1, rnd))

(***************************************************************************)
(* Event handlers, asynchronous callbacks and the Handover API, as         *)
(* functions of the state                                                  *)
(***************************************************************************)
\* req.onsuccess of getDefaultAdapter()
bt_getAdapterSuccess(st, rnd) ==
  Var(RunQueueFrom([st EXCEPT !.settingsNotified = FALSE,
                               !.defaultAdapter = TRUE], 1, rnd), LAMBDA s1 :
  IF s1.thrown THEN s1 ELSE [s1 EXCEPT !.actionQueue = <<>>])

\* req.onsuccess / req.onerror of sendNDEF(hs) in doHandoverRequest
doHandoverRequest_onsuccess(st, mac) == doPairing(st, mac, "none")

doHandoverRequest_onerror(st) == [st EXCEPT !.remoteMAC = <<>>]

\* req.onerror of sendNDEF(hr) in initiateFileTransfer; its onerror is
\* dispatchSendFileStatus(1)
initiateFileTransfer_onerror(st) ==
  Var(dispatchSendFileStatus(st, 1), LAMBDA s1 :
  IF s1.thrown THEN s1 ELSE [s1 EXCEPT !.sendFileRequest = <<>>])

\* onsuccess / onerror of the pairing started by doFileTransfer
doFileTransfer_onsuccess(st) ==
  IF st.sendFileRequest = <<>> THEN Throw(st, "TypeError")
  ELSE Emit(st, [e |-> "sendFile", mac |-> st.remoteMAC,
                 blob |-> st.sendFileRequest[1].blob])

doFileTransfer_onerror(st) ==
  IF st.sendFileRequest = <<>> THEN Throw(st, "TypeError")
  ELSE Var(dispatchSendFileStatus(st, 1), LAMBDA s1 :
       IF s1.thrown THEN s1
       ELSE [s1 EXCEPT !.sendFileRequest = <<>>, !.remoteMAC = <<>>])

handleHandoverSelect(st, ndef, rnd) ==
  Var(ReceivedMAC[ndef], LAMBDA mac :
  IF ~mac.ok THEN Throw(st, mac.err) ELSE
  IF mac.v = <<>> THEN st ELSE
  IF st.sendFileRequest # <<>>
  THEN doAction(st, [callback |-> "doFileTransfer", args |-> <<mac.v>>], rnd)
  ELSE doAction(st, [callback |-> "doPairing", args |-> <<mac.v>>], rnd))

handleHandoverRequest(st, ndef, session, rnd) ==
  doAction(st, [callback |-> "doHandoverRequest", args |-> <<ndef, session>>],
           rnd)

handleFileTransfer(st, session, blob, requestId, rnd) ==
  doAction(st, [callback |-> "initiateFileTransfer",
                args |-> <<session, blob, requestId>>], rnd)

isHandoverInProgress(st) == st.remoteMAC # <<>>

transferComplete(st, succeeded) ==
  Var(IF st.defaultAdapter /\ st.remoteMAC # <<>>
      THEN [Emit(st, [e |-> "unpair", mac |-> st.remoteMAC])
              EXCEPT !.remoteMAC = <<>>]
      ELSE st, LAMBDA s1 :
  IF s1.sendFileRequest = <<>> THEN s1 ELSE
  IF succeeded
  THEN Var(dispatchSendFileStatus(s1, 0), LAMBDA s2 :
       IF s2.thrown THEN s2 ELSE [s2 EXCEPT !.sendFileRequest = <<>>])
  \* this.sendFIleRequest is undefined
  ELSE Throw(s1, "TypeError"))

(***************************************************************************)
(* Actions                                                                 *)
(***************************************************************************)
\* the HandoverManager as constructed
ManagerInit ==
  /\ enabled = FALSE
  /\ getAdapterReq = FALSE
  /\ defaultAdapter = FALSE
  /\ actionQueue = <<>>
  /\ sendFileRequest = <<>>
  /\ remoteMAC = <<>>
  /\ settingsNotified = FALSE
  /\ requests = EmptyBag
  /\ cycleSets = 0
  /\ cycleEnqueued = FALSE

Init ==
  /\ ManagerInit
  /\ codecCall = NoCall
  /\ codecResult = Pending

\* the state a handler leaves behind
Commit(st) ==
  /\ Len(st.actionQueue) + BagCardinality(st.requests) <= MaxOutstanding
  /\ defaultAdapter' = st.defaultAdapter
  /\ actionQueue' = st.actionQueue
  /\ sendFileRequest' = st.sendFileRequest
  /\ remoteMAC' = st.remoteMAC
  /\ settingsNotified' = st.settingsNotified
  /\ requests' = st.requests
  /\ cycleSets' = st.cycleSets
  /\ cycleEnqueued' = st.cycleEnqueued
  /\ UNCHANGED codecVars

\* the platform turns Bluetooth on: bluetooth.enabled becomes true and the
\* 'adapteradded' listener calls getDefaultAdapter()
AdapterAdded ==
  /\ ~enabled
  /\ enabled' = TRUE
  /\ getAdapterReq' = TRUE
  /\ UNCHANGED <<defaultAdapter, actionQueue, sendFileRequest, remoteMAC,
                 settingsNotified, requests, cycleSets, cycleEnqueued>>
  /\ UNCHANGED codecVars

\* the platform turns Bluetooth off, once the adapter has been handed over
BluetoothOff ==
  /\ enabled /\ ~getAdapterReq
  /\ enabled' = FALSE
  /\ cycleSets' = 0
  /\ cycleEnqueued' = FALSE
  /\ UNCHANGED <<getAdapterReq, defaultAdapter, actionQueue, sendFileRequest,
                 remoteMAC, settingsNotified, requests>>
  /\ UNCHANGED codecVars

\* the radio-ready notification: getDefaultAdapter() succeeds
GetAdapterSuccess ==
  /\ getAdapterReq
  /\ \E rnd \in RndValues : Commit(bt_getAdapterSuccess(Self, rnd))
  /\ getAdapterReq' = FALSE
  /\ UNCHANGED enabled

HandleHandoverSelect ==
  /\ \E ndef \in SelectMsgs, rnd \in RndValues :
       Commit(handleHandoverSelect(Self, ndef, rnd))
  /\ UNCHANGED <<enabled, getAdapterReq>>

HandleHandoverRequest ==
  /\ \E ndef \in RequestMsgs, session \in Sessions, rnd \in RndValues :
       Commit(handleHandoverRequest(Self, ndef, session, rnd))
  /\ UNCHANGED <<enabled, getAdapterReq>>

HandleFileTransfer ==
  /\ \E t \in Transfers, rnd \in RndValues :
       Commit(handleFileTransfer(Self, t.session, t.blob, t.requestId, rnd))
  /\ UNCHANGED <<enabled, getAdapterReq>>

TransferComplete ==
  /\ \E succeeded \in BOOLEAN : Commit(transferComplete(Self, succeeded))
  /\ UNCHANGED <<enabled, getAdapterReq>>

\* Self without the request r, whose result is being delivered
Resolve(r) == [Self EXCEPT !.requests = @ (-) SetToBag({r})]

\* what the onsuccess / onerror callback of request r does
OnSuccess(r) ==
  CASE r.kind = "sendNDEF" /\ r.msg = "hs" ->
         doHandoverRequest_onsuccess(Resolve(r), r.mac)
    [] r.kind = "pair" /\ r.cb = "doFileTransfer" ->
         doFileTransfer_onsuccess(Resolve(r))
    [] OTHER -> Resolve(r)

OnError(r) ==
  CASE r.kind = "sendNDEF" /\ r.msg = "hs" ->
         doHandoverRequest_onerror(Resolve(r))
    [] r.kind = "sendNDEF" /\ r.msg = "hr" ->
         initiateFileTransfer_onerror(Resolve(r))
    [] r.kind = "pair" /\ r.cb = "doFileTransfer" ->
         doFileTransfer_onerror(Resolve(r))
    [] OTHER -> Resolve(r)

SendNDEFSuccess ==
  /\ \E r \in BagToSet(requests) : r.kind = "sendNDEF" /\ Commit(OnSuccess(r))
  /\ UNCHANGED <<enabled, getAdapterReq>>

SendNDEFError ==
  /\ \E r \in BagToSet(requests) : r.kind = "sendNDEF" /\ Commit(OnError(r))
  /\ UNCHANGED <<enabled, getAdapterReq>>

PairSuccess ==
  /\ \E r \in BagToSet(requests) : r.kind = "pair" /\ Commit(OnSuccess(r))
  /\ UNCHANGED <<enabled, getAdapterReq>>

PairError ==
  /\ \E r \in BagToSet(requests) : r.kind = "pair" /\ Commit(OnError(r))
  /\ UNCHANGED <<enabled, getAdapterReq>>

Next ==
  \/ AdapterAdded
  \/ BluetoothOff
  \/ GetAdapterSuccess
  \/ HandleHandoverSelect
  \/ HandleHandoverRequest
  \/ HandleFileTransfer
  \/ TransferComplete
  \/ SendNDEFSuccess
  \/ SendNDEFError
  \/ PairSuccess
  \/ PairError

Spec == Init /\ [][Next]_vars

(***************************************************************************)
(* Properties                                                              *)
(***************************************************************************)
\* the effects of kind k that a handler produced, in order
Effects(st, k) == SelectSeq(st.effects, LAMBDA x : x.e = k)

\* the actions a handler ran, in order
RunActions(st) ==
  [i \in 1..Len(Effects(st, "run")) |-> Effects(st, "run")[i].action]

\* the 'nfc-send-file-status' event of the transfer tx with the given status
StatusEvent(status, tx) ==
  [e |-> "nfc-send-file-status", status |-> status,
   requestId |-> tx.requestId, sessionToken |-> tx.session]

\* the actions the Handover API submits to doAction
SubmittedActions ==
  {[callback |-> "doFileTransfer", args |-> <<m>>] : m \in {MacA, MacB}}
  \cup {[callback |-> "doPairing", args |-> <<m>>] : m \in {MacA, MacB}}
  \cup {[callback |-> "doHandoverRequest", args |-> <<n, s>>] :
          n \in RequestMsgs, s \in Sessions}
  \cup {[callback |-> "initiateFileTransfer",
         args |-> <<t.session, t.blob, t.requestId>>] : t \in Transfers}

\* the pairing requests of doFileTransfer and the sendNDEF(hr) requests of
\* initiateFileTransfer that await their result
NegotiatedPairings ==
  {r \in BagToSet(requests) : r.kind = "pair" /\ r.cb = "doFileTransfer"}
RequestSends ==
  {r \in BagToSet(requests) : r.kind = "sendNDEF" /\ r.msg = "hr"}

\* C1: the radio-ready notification (bt_getAdapterSuccess) runs every action
\* of actionQueue exactly once, in the order of the queue, and leaves
\* actionQueue empty, so that no action is skipped or run again by a later
\* notification; also when a queued action is a handle_request on a
\* malformed message.
C1_ReadyRunsQueueOnce ==
  getAdapterReq =>
    \A rnd \in RndValues :
      Var(bt_getAdapterSuccess(Self, rnd), LAMBDA st :
        /\ RunActions(st) = actionQueue
        /\ st.actionQueue = <<>>)

\* C2: in each period in which Bluetooth is off, the settings are asked to
\* turn it on exactly once if an action was queued and not at all
\* otherwise: the first doAction of the period issues the request, every
\* further one issues none.
C2_OneEnableRequestPerCycle ==
  /\ cycleSets = IF cycleEnqueued THEN 1 ELSE 0
  /\ ~enabled =>
       \A a \in SubmittedActions, rnd \in RndValues :
         Var(doAction(Self, a, rnd), LAMBDA st :
           /\ Len(Effects(st, "settings.set")) = IF cycleEnqueued THEN 0 ELSE 1
           /\ st.cycleSets = 1)

\* C2 witness: actions are already queued in this period, one request was
\* issued, and a further doAction queues its action without a request
C2_Witness ==
  /\ ~enabled /\ cycleEnqueued /\ cycleSets = 1 /\ Len(actionQueue) >= 2
  /\ \E a \in SubmittedActions, rnd \in RndValues :
       Var(doAction(Self, a, rnd), LAMBDA st :
         /\ st.actionQueue = Append(actionQueue, a)
         /\ Effects(st, "settings.set") = <<>>)

\* C3: doAction called while Bluetooth is enabled runs the action before it
\* returns (once), leaves actionQueue as it was and issues no request to
\* the settings.
C3_EnabledRunsImmediately ==
  enabled =>
    \A a \in SubmittedActions, rnd \in RndValues :
      Var(doAction(Self, a, rnd), LAMBDA st :
        /\ RunActions(st) = <<a>>
        /\ st.effects[1] = [e |-> "run", action |-> a]
        /\ st.actionQueue = actionQueue
        /\ Effects(st, "settings.set") = <<>>
        /\ st.settingsNotified = settingsNotified)

\* C3 witness: Bluetooth is enabled while actions are still queued, and a
\* negotiated transfer submitted now is run at once and asks for pairing
C3_Witness ==
  /\ enabled /\ actionQueue # <<>> /\ sendFileRequest # <<>>
  /\ \E rnd \in RndValues :
       Var(doAction(Self, [callback |-> "doFileTransfer", args |-> <<MacA>>],
                    rnd), LAMBDA st :
         /\ Effects(st, "pair") = <<[e |-> "pair", mac |-> MacA]>>
         /\ st.actionQueue = actionQueue)

\* C4: transferComplete(true) in a state with sendFileRequest and remoteMAC
\* set dispatches exactly one status event, with status 0, asks the adapter
\* to unpair remoteMAC and clears both fields; a second transferComplete
\* right after it does nothing.
C4_CompleteClearsBoth ==
  (sendFileRequest # <<>> /\ remoteMAC # <<>>) =>
    Var(transferComplete(Self, TRUE), LAMBDA st :
      /\ ~st.thrown
      /\ Effects(st, "nfc-send-file-status")
           = <<StatusEvent(0, sendFileRequest[1])>>
      /\ Effects(st, "unpair") = <<[e |-> "unpair", mac |-> remoteMAC]>>
      /\ st.sendFileRequest = <<>> /\ st.remoteMAC = <<>>
      /\ \A succeeded \in BOOLEAN :
           transferComplete([st EXCEPT !.effects = <<>>], succeeded)
             = [st EXCEPT !.effects = <<>>])

\* C5: transferComplete(false) with sendFileRequest set raises no error,
\* dispatches exactly one status event, with status 1, and clears
\* sendFileRequest.
C5_FailureCallbackOnce ==
  sendFileRequest # <<>> =>
    Var(transferComplete(Self, FALSE), LAMBDA st :
      /\ ~st.thrown
      /\ Effects(st, "nfc-send-file-status")
           = <<StatusEvent(1, sendFileRequest[1])>>
      /\ st.sendFileRequest = <<>>)

\* the well-formed Select messages without a Bluetooth carrier
SelectsWithoutBluetooth == {"SelectNoBT", "SelectWrongTnf"}

\* C6: handleHandoverSelect on a well-formed Select without an alternative
\* carrier of the Bluetooth MIME type changes no field of the state
\* (actionQueue, sendFileRequest, remoteMAC, settingsNotified), asks for no
\* pairing and issues no request to the settings, with Bluetooth enabled
\* or disabled.
C6_SelectWithoutBluetoothIsNoOp ==
  \A ndef \in SelectsWithoutBluetooth, rnd \in RndValues :
    handleHandoverSelect(Self, ndef, rnd) = Self

\* C6 witness: the Select parses, has a carrier, which is not Bluetooth,
\* and arrives while a transfer is pending and Bluetooth is off
C6_Witness ==
  /\ ~enabled /\ sendFileRequest # <<>> /\ ~settingsNotified
  /\ NdefHandoverCodec_parse(SelectNoBT).ok
  /\ Len(NdefHandoverCodec_parse(SelectNoBT).v.ac) = 1
  /\ searchForBluetoothAC(NdefHandoverCodec_parse(SelectNoBT).v) = <<>>
  /\ NdefHandoverCodec_parse(SelectWrongTnf).ok
  /\ NdefHandoverCodec_parse(SelectWrongTnf).v.ac[1].cdr.type = BluetoothMimeType
  /\ \A ndef \in SelectsWithoutBluetooth, rnd \in RndValues :
       handleHandoverSelect(Self, ndef, rnd) = Self

\* C7: handleHandoverSelect and handleHandoverRequest on a malformed message
\* (unknown handover tag, bad nested records, dangling carrier reference,
\* truncated or overrunning Bluetooth OOB payload) return without an error,
\* ask for no pairing, send nothing and leave sendFileRequest and remoteMAC
\* as they were.
C7_MalformedIsIgnored ==
  \A rnd \in RndValues :
    /\ \A ndef \in Malformed \cap SelectMsgs :
         handleHandoverSelect(Self, ndef, rnd) = Self
    /\ \A ndef \in Malformed \cap RequestMsgs, session \in Sessions :
         Var(handleHandoverRequest(Self, ndef, session, rnd), LAMBDA st :
           /\ ~st.thrown
           /\ Effects(st, "pair") = <<>> /\ Effects(st, "sendNDEF") = <<>>
           /\ st.sendFileRequest = sendFileRequest
           /\ st.remoteMAC = remoteMAC
           /\ st.requests = requests)

\* C8: for a Request sent by initiateFileTransfer whose result is awaited:
\* when the send fails, exactly one status event with status 1 is
\* dispatched and sendFileRequest is cleared; when it succeeds, no event is
\* dispatched and sendFileRequest stays as it is.
C8_SendFailureReportsOnce ==
  \A r \in RequestSends :
    /\ Var(OnError(r), LAMBDA st :
         /\ ~st.thrown
         /\ Len(Effects(st, "nfc-send-file-status")) = 1
         /\ Effects(st, "nfc-send-file-status")[1].status = 1
         /\ st.sendFileRequest = <<>>)
    /\ Var(OnSuccess(r), LAMBDA st :
         /\ st.effects = <<>>
         /\ st.sendFileRequest = sendFileRequest)

\* C9: with the adapter obtained and sendFileRequest set, handleHandoverSelect
\* on a Select with a Bluetooth carrier asks for pairing with the address of
\* that Select; and when a pairing asked for by doFileTransfer succeeds while
\* sendFileRequest is set, the file transfer is started to the address that
\* pairing was asked for, with the blob of sendFileRequest, whatever other
\* Selects were handled in between.
C9_TransferGoesToPairedAddress ==
  /\ (enabled /\ defaultAdapter /\ sendFileRequest # <<>>) =>
       \A rnd \in RndValues :
         Effects(handleHandoverSelect(Self, "SelectA", rnd), "pair")
           = <<[e |-> "pair", mac |-> MacA]>>
  /\ sendFileRequest # <<>> =>
       \A r \in NegotiatedPairings :
         Effects(OnSuccess(r), "sendFile")
           = <<[e |-> "sendFile", mac |-> r.mac,
                blob |-> sendFileRequest[1].blob]>>

\* C10: when a pairing asked for by doFileTransfer fails, exactly one status
\* event with status 1 is dispatched, sendFileRequest and remoteMAC are
\* cleared, and no file transfer is started.
C10_PairingFailureFailsTransfer ==
  \A r \in NegotiatedPairings :
    Var(OnError(r), LAMBDA st :
      /\ ~st.thrown
      /\ Len(Effects(st, "nfc-send-file-status")) = 1
      /\ Effects(st, "nfc-send-file-status")[1].status = 1
      /\ st.sendFileRequest = <<>> /\ st.remoteMAC = <<>>
      /\ Effects(st, "sendFile") = <<>>)

\* the sendNDEF(hs) requests of doHandoverRequest that await their result
SelectSends ==
  {r \in BagToSet(requests) : r.kind = "sendNDEF" /\ r.msg = "hs"}

\* C11: handleHandoverRequest run on a valid Request with a Bluetooth
\* carrier sets remoteMAC to the address of the Request and sends one Select
\* on the session, without asking for pairing yet; the success of that send
\* asks for pairing with that address, its failure asks for no pairing and
\* leaves remoteMAC null (isHandoverInProgress is false).
C11_RequestAnsweredThenPaired ==
  /\ enabled =>
       \A session \in Sessions, rnd \in RndValues :
         Var(handleHandoverRequest(Self, "RequestA", session, rnd), LAMBDA st :
           /\ ~st.thrown
           /\ st.remoteMAC = MacA
           /\ Effects(st, "sendNDEF")
                = <<[e |-> "sendNDEF", session |-> session,
                     ndef |-> SentSelect[carrierPowerState(Self)]]>>
           /\ Effects(st, "pair") = <<>>)
  /\ \A r \in SelectSends :
       /\ Effects(OnSuccess(r), "pair") = <<[e |-> "pair", mac |-> r.mac]>>
       /\ Var(OnError(r), LAMBDA st :
            /\ Effects(st, "pair") = <<>>
            /\ ~isHandoverInProgress(st))

(***************************************************************************)
(* The codec functions called on their own: one call, then its result      *)
(***************************************************************************)
\* groups of two hex digits, and the address a:b:c:d:e:f of six groups
GroupSamples ==
  {<<"0", "0">>, <<"0", "A">>, <<"0", "F">>, <<"1", "0">>, <<"7", "F">>,
   <<"8", "0">>, <<"A", "5">>, <<"F", "F">>}

RECURSIVE JoinColon(_)
JoinColon(groups) ==
  IF Len(groups) = 0 THEN <<>>
  ELSE IF Len(groups) = 1 THEN groups[1]
  ELSE groups[1] \o <<":">> \o JoinColon(Tail(groups))

BaseGroups ==
  <<<<"0", "A">>, <<"1", "B">>, <<"2", "C">>, <<"3", "D">>, <<"4", "E">>,
    <<"5", "F">>>>

\* valid address strings: six groups of two uppercase hex digits
ValidAddresses ==
  {JoinColon([BaseGroups EXCEPT ![i] = g]) : i \in 1..6, g \in GroupSamples}
  \cup {MacA, MacB, LocalAddress}

\* groups that are not a hexadecimal octet
BadGroups ==
  {<<"Z", "Z">>, <<"G", "0">>, <<"0", "G">>, <<>>, <<"1", "F", "F">>,
   <<"-", "1">>, <<" ", " ">>}

\* address strings that do not consist of six hex octet groups: too few or
\* too many groups, or six groups of which one is not a hex octet
InvalidAddresses ==
  {JoinColon(SubSeq(BaseGroups, 1, n)) : n \in 0..5}
  \cup {JoinColon(BaseGroups \o <<g>>) : g \in GroupSamples}
  \cup {JoinColon([BaseGroups EXCEPT ![i] = g]) : i \in 1..6, g \in BadGroups}

\* carrier power states, and collision values (rnd) around the octet and
\* sign boundaries of the 16-bit range
PowerStates == 0..3
CollisionValues == {0, 1, 255, 256, 4660, 32767, 32768, 65280, 65535}

EncodeSelectCalls ==
  {[op |-> "encodeHandoverSelect", mac |-> a, cps |-> c] :
     a \in ValidAddresses \cup InvalidAddresses, c \in PowerStates}

EncodeRequestCalls ==
  {[op |-> "encodeHandoverRequest", mac |-> a, cps |-> c, rnd |-> r] :
     a \in ValidAddresses, c \in PowerStates, r \in CollisionValues}
  \cup {[op |-> "encodeHandoverRequest", mac |-> a, cps |-> c, rnd |-> 4660] :
          a \in InvalidAddresses, c \in PowerStates}

\* a call awaits its result
Calling(op) == codecCall.op = op /\ codecResult = Pending
\* the call has returned
Returned(op) == codecCall.op = op /\ codecResult.done

EncodeHandoverSelect ==
  /\ Calling("encodeHandoverSelect")
  /\ codecResult' = Result(encodeHandoverSelect(codecCall.mac, codecCall.cps))
  /\ UNCHANGED <<codecCall, managerVars>>

EncodeHandoverRequest ==
  /\ Calling("encodeHandoverRequest")
  /\ codecResult' =
       Result(encodeHandoverRequest(codecCall.mac, codecCall.cps,
                                    codecCall.rnd))
  /\ UNCHANGED <<codecCall, managerVars>>

\* NdefHandoverCodec.parse, searchForBluetoothAC and parseBluetoothSSP on an
\* encoded message: the handover object, its Bluetooth carrier and the
\* address in it
Decoded(msg) ==
  Var(NdefHandoverCodec_parse(msg), LAMBDA h :
  IF ~h.ok THEN [ok |-> FALSE] ELSE
  Var(searchForBluetoothAC(h.v), LAMBDA cdr :
  IF cdr = <<>> THEN [ok |-> FALSE] ELSE
  Var(parseBluetoothSSP(cdr[1]), LAMBDA btssp :
  IF ~btssp.ok THEN [ok |-> FALSE]
  ELSE [ok |-> TRUE, h |-> h.v, cdr |-> cdr[1], mac |-> btssp.v.mac])))

\* C12: for every valid address and power state, the message built by
\* encodeHandoverSelect parses as a Select with exactly one alternative
\* carrier, whose carrier data record is the one found as the Bluetooth
\* carrier, and whose Bluetooth configuration has the address given.
C12_SelectRoundTrip ==
  (Returned("encodeHandoverSelect") /\ codecCall.mac \in ValidAddresses) =>
    /\ codecResult.v # <<>>
    /\ Var(Decoded(codecResult.v[1]), LAMBDA d :
         /\ d.ok
         /\ d.h.type = "Hs"
         /\ Len(d.h.ac) = 1
         /\ d.h.ac[1].cdr = d.cdr
         /\ d.h.ac[1].cps = codecCall.cps
         /\ d.mac = codecCall.mac)

\* C12 witness: a Select was built for an address with an octet below 16 in
\* the last group and parses back to that address
C12_Witness ==
  /\ Returned("encodeHandoverSelect")
  /\ codecCall.mac = JoinColon([BaseGroups EXCEPT ![6] = <<"0", "F">>])
  /\ codecCall.cps = 2
  /\ codecResult.v # <<>>
  /\ Decoded(codecResult.v[1]).mac = codecCall.mac

\* C13: for every valid address, power state and collision value in
\* 0..65535, the message built by encodeHandoverRequest parses as a Request
\* whose cr is the collision value (sent high octet first) and whose
\* Bluetooth configuration has the address given.
C13_RequestRoundTrip ==
  (Returned("encodeHandoverRequest") /\ codecCall.mac \in ValidAddresses) =>
    /\ codecResult.v # <<>>
    /\ codecResult.v[1][1].payload[7] = codecCall.rnd \div 256
    /\ codecResult.v[1][1].payload[8] = codecCall.rnd % 256
    /\ Var(Decoded(codecResult.v[1]), LAMBDA d :
         /\ d.ok
         /\ d.h.type = "Hr"
         /\ d.h.cr = <<codecCall.rnd>>
         /\ d.mac = codecCall.mac)

\* C13 witness: a Request was built with a collision value whose two octets
\* differ and whose top bit is set, and parses back to it
C13_Witness ==
  /\ Returned("encodeHandoverRequest")
  /\ codecCall.mac = MacB /\ codecCall.rnd = 65280
  /\ codecResult.v # <<>>
  /\ Decoded(codecResult.v[1]).h.cr = <<65280>>

\* C15: encodeHandoverRequest and encodeHandoverSelect return null for every
\* address string that does not consist of six hex octet groups, also when
\* it has six groups of which one is not a hexadecimal octet, so that no
\* message carries another address than the one given.
C15_InvalidAddressGivesNull ==
  ((Returned("encodeHandoverSelect") \/ Returned("encodeHandoverRequest"))
     /\ codecCall.mac \in InvalidAddresses) =>
    codecResult.v = <<>>

\* the shape of an NDEF record in a buffer: its header flags; every record
\* has TNF 1, type 'T', payload <<7>> and, with IL, id '0'
RecordShapes ==
  [mb : BOOLEAN, me : BOOLEAN, cf : BOOLEAN, sr : BOOLEAN, il : BOOLEAN]

Flag(b, mask) == IF b THEN mask ELSE 0

HeaderOctet(d) ==
  Flag(d.mb, MB) + Flag(d.me, ME) + Flag(d.cf, CF) + Flag(d.sr, SR)
    + Flag(d.il, IL) + tnf_well_known

\* the octets of one record of shape d
RecordOctets(d) ==
  <<HeaderOctet(d), 1>>
    \o (IF d.sr THEN <<1>> ELSE <<0, 0, 0, 1>>)
    \o (IF d.il THEN <<1>> ELSE <<>>)
    \o <<84>> \o (IF d.il THEN <<48>> ELSE <<>>) \o <<7>>

RECURSIVE MessageOctets(_)
MessageOctets(shapes) ==
  IF Len(shapes) = 0 THEN <<>>
  ELSE RecordOctets(shapes[1]) \o MessageOctets(Tail(shapes))

\* the longest sequence of records in a buffer
MaxRecords == 2

ShapeSeqs == UNION {[1..n -> RecordShapes] : n \in 1..MaxRecords}

\* well-formed two-record messages, to be cut short
TwoRecordMessages ==
  {<<[mb |-> TRUE, me |-> FALSE, cf |-> FALSE, sr |-> sr1, il |-> il1],
     [mb |-> FALSE, me |-> TRUE, cf |-> FALSE, sr |-> sr2, il |-> il2]>> :
     sr1 \in BOOLEAN, il1 \in BOOLEAN, sr2 \in BOOLEAN, il2 \in BOOLEAN}

\* NdefCodec.parse on the whole buffer of every sequence of shapes, and on
\* every proper prefix of the well-formed two-record messages
ShapedParseCalls ==
  {[op |-> "NdefCodec.parse", shapes |-> sh, buf |-> MessageOctets(sh)] :
     sh \in ShapeSeqs}
  \cup UNION {{[op |-> "NdefCodec.parse", shapes |-> sh,
                 buf |-> SubSeq(MessageOctets(sh), 1, n)] :
                  n \in 0..(Len(MessageOctets(sh)) - 1)} :
                sh \in TwoRecordMessages}

\* the four payload length octets of a record without SR, high octet first
LongLengths ==
  {<<0, 0, 0, 0>>, <<0, 0, 0, 1>>, <<0, 0, 0, 2>>, <<0, 0, 1, 0>>,
   <<127, 255, 255, 255>>, <<128, 0, 0, 0>>, <<255, 255, 255, 255>>,
   <<255, 255, 255, 250>>, <<255, 255, 255, 249>>}

\* NdefCodec.parse on a record without SR (empty type, no id) with the
\* payload length octets len, followed by the octets body; the record is
\* the first one, or comes after a short empty first record
LongParseCalls ==
  {[op |-> "NdefCodec.parse", shapes |-> <<>>, first |-> first, me |-> me,
    len |-> len, body |-> body,
    buf |-> (IF first THEN <<>> ELSE <<MB + SR + tnf_well_known, 0, 0>>)
              \o <<Flag(first, MB) + Flag(me, ME) + tnf_well_known, 0>>
              \o len \o body] :
     first \in BOOLEAN, me \in BOOLEAN, len \in LongLengths,
     body \in {<<>>, <<7>>, <<7, 8>>}}

NdefCodecParse ==
  /\ Calling("NdefCodec.parse")
  /\ codecResult' = Result(NdefCodec_parse(codecCall.buf, 0))
  /\ UNCHANGED <<codecCall, managerVars>>

\* the records of shapes that doParse reads: up to the first one with ME
RECURSIVE UpToLast(_)
UpToLast(shapes) ==
  IF Len(shapes) = 0 THEN <<>>
  ELSE IF shapes[1].me THEN <<shapes[1]>>
  ELSE <<shapes[1]>> \o UpToLast(Tail(shapes))

\* MB on the first record only, CF on none
FlagsValid(recs) ==
  /\ recs[1].mb
  /\ \A j \in 2..Len(recs) : ~recs[j].mb
  /\ \A j \in 1..Len(recs) : ~recs[j].cf

\* C14: NdefCodec.parse returns a message only if the first record has MB,
\* no later record has MB and no record has CF; a buffer whose records, up
\* to the one with ME, break one of these three rules parses to null,
\* whatever its SR and IL flags and whether or not it is cut short.
C14_FlagRules ==
  (Returned("NdefCodec.parse") /\ codecCall.shapes # <<>>) =>
    Var(UpToLast(codecCall.shapes), LAMBDA recs :
      /\ codecResult.v.ok => FlagsValid(recs)
      /\ ~FlagsValid(recs) => codecResult.v = Thrown("null")
      /\ (FlagsValid(recs) /\ recs[Len(recs)].me
            /\ codecCall.buf = MessageOctets(codecCall.shapes)) =>
           (codecResult.v.ok /\ Len(codecResult.v.v) = Len(recs)))

\* C14 witness: a buffer of two complete records whose second record has MB
\* set again was parsed, to null
C14_Witness ==
  /\ Returned("NdefCodec.parse")
  /\ Len(codecCall.shapes) = 2
  /\ codecCall.buf = MessageOctets(codecCall.shapes)
  /\ codecCall.shapes[1].mb /\ ~codecCall.shapes[1].me /\ ~codecCall.shapes[1].cf
  /\ codecCall.shapes[2].mb /\ codecCall.shapes[2].me /\ ~codecCall.shapes[2].cf
  /\ codecResult.v = Thrown("null")

\* C19: NdefCodec.parse ends on every buffer, with a non-empty sequence of
\* records or with null; and a record without SR whose four length octets
\* declare more payload than the buffer has left, also with the top bit of
\* the length set, makes it end with null.
C19_ParseTerminates ==
  Returned("NdefCodec.parse") =>
    /\ \/ codecResult.v.ok /\ Len(codecResult.v.v) >= 1
       \/ codecResult.v = Thrown("null")
    /\ (codecCall.shapes = <<>>
          /\ (\/ codecCall.len[1] > 0 \/ codecCall.len[2] > 0
              \/ codecCall.len[3] * 256 + codecCall.len[4]
                   > Len(codecCall.body))) =>
         codecResult.v = Thrown("null")

\* NdefHandoverCodec.parse on Select and Request messages whose Hs/Hr record
\* nests up to MaxCarriers records after the version octet (and, in a
\* Request, after the 'cr' record); each nested record has a type name
\* format, the type 'ac' or 'ax', and the payload of an 'ac' record that
\* refers to the carrier record of the message
MaxCarriers == 2

NestedKinds == [tnf : 0..TNF, type : {rtd_alternative_carrier, <<97, 120>>}]

\* the carrier id the nested records refer to
CarrierId == 48

\* the octets of the nested records from index i on; the first record of the
\* embedded message has MB, the last has ME
RECURSIVE NestedOctets(_, _, _)
NestedOctets(kinds, i, first) ==
  IF i > Len(kinds) THEN <<>>
  ELSE <<Flag(first, MB) + Flag(i = Len(kinds), ME) + SR + kinds[i].tnf,
         Len(kinds[i].type), 4>>
         \o kinds[i].type \o <<1, 1, CarrierId, 0>>
         \o NestedOctets(kinds, i + 1, FALSE)

\* the 'cr' record of a Request, collision value 0x1234
CrOctets == <<145, 2, 2, 99, 114, 18, 52>>

HandoverMessage(hx, kinds) ==
  <<MozNdefRecord(tnf_well_known,
                  IF hx = "Hs" THEN rtd_handover_select
                               ELSE rtd_handover_request,
                  <<>>,
                  <<18>> \o (IF hx = "Hs" THEN <<>> ELSE CrOctets)
                    \o NestedOctets(kinds, 1, hx = "Hs")),
    BtRecord(CarrierId, <<8, 0>> \o OctetsA)>>

HandoverParseCalls ==
  {[op |-> "NdefHandoverCodec.parse", hx |-> hx, nested |-> kinds,
    ndefMsg |-> HandoverMessage(hx, kinds)] :
     hx \in {"Hs", "Hr"},
     kinds \in UNION {[1..n -> NestedKinds] : n \in 1..MaxCarriers}}

NdefHandoverCodecParse ==
  /\ Calling("NdefHandoverCodec.parse")
  /\ codecResult' = Result(NdefHandoverCodec_parse(codecCall.ndefMsg))
  /\ UNCHANGED <<codecCall, managerVars>>

\* C20: NdefHandoverCodec.parse returns a handover object only if every
\* nested alternative carrier record has the well-known type name format and
\* the type 'ac'; a message with a nested record of type 'ac' and another
\* type name format gives null.
C20_NestedCarriersWellKnown ==
  Returned("NdefHandoverCodec.parse") =>
    /\ codecResult.v.ok =>
         \A i \in 1..Len(codecCall.nested) :
           /\ codecCall.nested[i].tnf = tnf_well_known
           /\ codecCall.nested[i].type = rtd_alternative_carrier
    /\ (\E i \in 1..Len(codecCall.nested) :
          /\ codecCall.nested[i].type = rtd_alternative_carrier
          /\ codecCall.nested[i].tnf # tnf_well_known) =>
         codecResult.v = Thrown("null")

CodecInit ==
  /\ ManagerInit
  /\ codecCall \in EncodeSelectCalls \cup EncodeRequestCalls
                   \cup ShapedParseCalls \cup LongParseCalls
                   \cup HandoverParseCalls
  /\ codecResult = Pending

CodecNext ==
  \/ EncodeHandoverSelect
  \/ EncodeHandoverRequest
  \/ NdefCodecParse
  \/ NdefHandoverCodecParse

CodecSpec == CodecInit /\ [][CodecNext]_vars


\* C16: in every state with remoteMAC set, transferComplete (with either
\* argument) asks the adapter to unpair exactly remoteMAC and clears it, so
\* that isHandoverInProgress is false afterwards; this includes the states
\* where remoteMAC was set before bt_getAdapterSuccess.
C16_CompleteAlwaysUnpairs ==
  remoteMAC # <<>> =>
    \A succeeded \in BOOLEAN :
      Var(transferComplete(Self, succeeded), LAMBDA st :
        /\ Effects(st, "unpair") = <<[e |-> "unpair", mac |-> remoteMAC]>>
        /\ ~isHandoverInProgress(st))



\* C17: when the send of a Request by initiateFileTransfer fails, every
\* status event dispatched carries the requestId and the session of the
\* transfer that Request was sent for, and a sendFileRequest that belongs to
\* another transfer is left as it is.
C17_StatusNamesOwnTransfer ==
  \A r \in RequestSends :
    Var(OnError(r), LAMBDA st :
      /\ \A i \in 1..Len(Effects(st, "nfc-send-file-status")) :
           Effects(st, "nfc-send-file-status")[i] = StatusEvent(1, r.tx)
      /\ (sendFileRequest # <<>> /\ sendFileRequest[1] # r.tx) =>
           st.sendFileRequest = sendFileRequest)


\* C18: while remoteMAC is set by a handover, the failure of a Select send
\* or of a negotiated pairing that was started for another address leaves
\* remoteMAC as it is, and no handleHandoverRequest or handleHandoverSelect
\* replaces it by another address.
C18_RemoteMACOwnedByHandover ==
  remoteMAC # <<>> =>
    /\ \A r \in SelectSends \cup NegotiatedPairings :
         r.mac # remoteMAC => OnError(r).remoteMAC = remoteMAC
    /\ \A rnd \in RndValues :
         /\ \A ndef \in SelectMsgs :
              handleHandoverSelect(Self, ndef, rnd).remoteMAC = remoteMAC
         /\ \A ndef \in RequestMsgs, session \in Sessions :
              handleHandoverRequest(Self, ndef, session, rnd).remoteMAC
                = remoteMAC


\* C21: whenever doAction runs the action it is given at once, actionQueue
\* is empty: no action runs ahead of actions queued before it.
C21_RunsInSubmissionOrder ==
  \A a \in SubmittedActions, rnd \in RndValues :
    RunActions(doAction(Self, a, rnd)) # <<>> => actionQueue = <<>>


\* the actions that use defaultAdapter when run in the current state:
\* doPairing, doFileTransfer with a sendFileRequest, initiateFileTransfer,
\* and doHandoverRequest on a Request with a Bluetooth address
NeedsAdapter(a) ==
  \/ a.callback \in {"doPairing", "initiateFileTransfer"}
  \/ a.callback = "doFileTransfer" /\ sendFileRequest # <<>>
  \/ /\ a.callback = "doHandoverRequest"
     /\ ReceivedMAC[a.args[1]].ok
     /\ ReceivedMAC[a.args[1]].v # <<>>

\* C22: whenever doAction runs an action that uses defaultAdapter, the
\* adapter has been obtained: the action sends its message or asks for its
\* pairing, and ends without a TypeError; a pairing step is never dropped.
C22_AdapterObtainedWhenNeeded ==
  \A a \in SubmittedActions, rnd \in RndValues :
    Var(doAction(Self, a, rnd), LAMBDA st :
      (RunActions(st) # <<>> /\ NeedsAdapter(a)) =>
        /\ defaultAdapter
        /\ ~st.thrown
        /\ a.callback \in {"doPairing", "doFileTransfer"} =>
             Effects(st, "pair") = <<[e |-> "pair", mac |-> a.args[1]]>>
        /\ a.callback \in {"initiateFileTransfer", "doHandoverRequest"} =>
             Len(Effects(st, "sendNDEF")) = 1)


\* C23: while a pairing asked for by doFileTransfer or a Request send of
\* initiateFileTransfer awaits its result, sendFileRequest is set: the
\* success and failure callbacks that read it end without a TypeError.
C23_PendingTransferOutlivesCallbacks ==
  /\ \A r \in NegotiatedPairings \cup RequestSends :
       sendFileRequest # <<>> /\ ~OnError(r).thrown
  /\ \A r \in NegotiatedPairings : ~OnSuccess(r).thrown

=============================================================================
